---------------------------- MODULE Spec2Model ----------------------------
(***************************************************************************)
(* A model of the sqlparse core: the Lexer (lexer.py), the                 *)
(* StatementSplitter and FilterStack (engine/), the grouping engine        *)
(* (engine/grouping.py) and the token tree of sql.py.                      *)
(*                                                                         *)
(* Text is a sequence of one-character strings.  Python indices are        *)
(* 0-based: At(t, i) is t[i].  Objects live in a heap indexed by object    *)
(* ids 1..n; the id 0 stands for None where an object is expected.         *)
(***************************************************************************)
EXTENDS Integers, Sequences, FiniteSets, TLC

VARIABLES
    text,     \* Lexer.get_tokens: the text being scanned
    pos,      \* the index the enumerate(text) iterator yields next
    out,      \* the (ttype, value) pairs yielded so far
    lpc,      \* "scan" | "done" (iterator exhausted) | "raised" (IndexError)
    sql,      \* FilterStack.run: its argument
    grouping, \* FilterStack._grouping
    stream,   \* FilterStack.run: the local `stream`
    ret,      \* FilterStack.run: the local `ret`
    rpc,      \* FilterStack.run: "start" | "tokenized" | "split" | "grouped"
              \*                  | "returned" | "raised"
    heap,     \* the Token and TokenList objects, by id
    call,     \* the last call of the TokenList API: its arguments, the
              \* object it returned and the heap it started from
    gpc,      \* grouping.group(stream): "idle" | "matching" | "middle"
              \*                         | "order" | "returned" | "raised"
    gpass,    \* the pass of that stage that runs next (1-based)
    exc,      \* the exception the call under way has raised, "" for none
    lexer,    \* the class attributes of Lexer (_lock, _default_instance)
              \* and the Lexer instances made
    proc,     \* the threads calling Lexer.get_default_instance: where each
              \* is and what it has been returned
    cli       \* cli.main: its arguments, its position and its exit status

lexVars == <<text, pos, out, lpc>>

runVars == <<sql, grouping, stream, ret, rpc>>

treeVars == <<heap, call>>

groupVars == <<gpc, gpass>>

sysVars == <<lexer, proc, cli>>

vars == <<text, pos, out, lpc, sql, grouping, stream, ret, rpc, heap, call,
          gpc, gpass, exc, lexer, proc, cli>>

(***************************************************************************)
(* Bounds of the model.                                                    *)
(***************************************************************************)
MaxLen == 3

\* the children a TokenList is first constructed with, and the objects API
\* calls may add to them
MaxLeaves == 3

\* the longest text whose tokens grouping.group is run on
MaxGroupLen == 3

(***************************************************************************)
(* Character classes (str.isspace, str.isdigit, str.isalpha) and the       *)
(* character sets spelled out in Lexer.get_tokens.                         *)
(***************************************************************************)
LowerSeq == <<"a","b","c","d","e","f","g","h","i","j","k","l","m",
              "n","o","p","q","r","s","t","u","v","w","x","y","z">>
UpperSeq == <<"A","B","C","D","E","F","G","H","I","J","K","L","M",
              "N","O","P","Q","R","S","T","U","V","W","X","Y","Z">>

SpaceChars == {" ", "\n", "\t"}
DigitChars == {"0","1","2","3","4","5","6","7","8","9"}
AlphaChars == {LowerSeq[i] : i \in 1..26} \cup {UpperSeq[i] : i \in 1..26}
AlnumChars == AlphaChars \cup DigitChars
NameStart  == AlphaChars \cup {"_", "$"}
NameChars  == AlnumChars \cup {"_", "$"}
NumberChars == DigitChars \cup {"."}
OperatorChars == {"+","-","*","/","%","<",">","=","!","|","&","~","^"}
PunctuationChars == {"(",")","[","]","{","}",",",";","."}
QuoteChars == {"\"", "'"}

\* str.upper on one character and on a word
UpperChar(c) ==
    IF \E i \in 1..26 : LowerSeq[i] = c
    THEN UpperSeq[CHOOSE i \in 1..26 : LowerSeq[i] = c]
    ELSE c

Upper(w) == [i \in 1..Len(w) |-> UpperChar(w[i])]

\* t[i] and t[a:b] for 0 <= a <= b <= len(t)
At(t, i) == t[i + 1]

Slice(t, a, b) == SubSeq(t, a + 1, b)

(***************************************************************************)
(* Token types.  A type is the tuple of its path below tokens.Token, and   *)
(* `x in T` is the prefix test of _TokenType.__contains__.                 *)
(***************************************************************************)
T_Whitespace == <<"Text", "Whitespace">>
T_Comment_Single == <<"Comment", "Single">>
T_String == <<"Literal", "String">>
T_String_Symbol == <<"Literal", "String", "Symbol">>
T_Number == <<"Literal", "Number">>
T_Name == <<"Name">>
T_Name_Builtin == <<"Name", "Builtin">>
T_Keyword == <<"Keyword">>
T_Keyword_DML == <<"Keyword", "DML">>
T_Keyword_DDL == <<"Keyword", "DDL">>
T_Keyword_Order == <<"Keyword", "Order">>
T_Operator == <<"Operator">>
T_Operator_Comparison == <<"Operator", "Comparison">>
T_Assignment == <<"Assignment">>
T_Punctuation == <<"Punctuation">>
T_Error == <<"Error">>
\* the ttype of a TokenList is None
T_None == <<"None">>

TypeIn(item, T) ==
    /\ item # T_None
    /\ Len(item) >= Len(T)
    /\ SubSeq(item, 1, Len(T)) = T

(***************************************************************************)
(* The keyword tables.  Lexer.is_keyword looks the upper-cased word up in  *)
(* the tables in the order they were added and answers Name otherwise.     *)
(***************************************************************************)
W_SELECT == <<"S","E","L","E","C","T">>
W_CREATE == <<"C","R","E","A","T","E">>
W_CASE == <<"C","A","S","E">>
W_WHEN == <<"W","H","E","N">>
W_THEN == <<"T","H","E","N">>
W_ELSE == <<"E","L","S","E">>
W_END == <<"E","N","D">>
W_BEGIN == <<"B","E","G","I","N">>
W_IF == <<"I","F">>
W_FOR == <<"F","O","R">>
W_INT == <<"I","N","T">>
W_TIMESTAMP == <<"T","I","M","E","S","T","A","M","P">>
W_WHERE == <<"W","H","E","R","E">>
W_HAVING == <<"H","A","V","I","N","G">>
W_OVER == <<"O","V","E","R">>
W_FOREACH == <<"F","O","R","E","A","C","H">>
W_ASC == <<"A","S","C">>
W_DESC == <<"D","E","S","C">>

KEYWORDS(val) ==
    CASE val = W_SELECT -> T_Keyword_DML
      [] val = W_CREATE -> T_Keyword_DDL
      [] val \in {W_CASE, W_WHEN, W_THEN, W_ELSE, W_END, W_BEGIN, W_IF, W_FOR}
            -> T_Keyword
      [] val \in {W_INT, W_TIMESTAMP} -> T_Name_Builtin
      [] OTHER -> T_None

is_keyword(value) ==
    LET val == Upper(value)
    IN  IF KEYWORDS(val) # T_None THEN KEYWORDS(val) ELSE T_Name

(***************************************************************************)
(* Lexer.get_tokens: the scanning loops of the rules.                      *)
(***************************************************************************)
\* while end < len(text) and text[end] in S: end += 1
RECURSIVE ScanWhile(_, _, _)
ScanWhile(t, end, S) ==
    IF end < Len(t) /\ At(t, end) \in S
    THEN ScanWhile(t, end + 1, S)
    ELSE end

\* text.find(c, start), with len(text) standing for the -1 that the code
\* replaces by len(text)
RECURSIVE FindOrLen(_, _, _)
FindOrLen(t, c, start) ==
    IF start >= Len(t) THEN Len(t)
    ELSE IF At(t, start) = c THEN start
    ELSE FindOrLen(t, c, start + 1)

\* the while loop of the string rule with escaped left False throughout
RECURSIVE StringLoop_unescaped(_, _, _, _)
StringLoop_unescaped(t, end, char, escaped) ==
    IF end < Len(t)
    THEN IF At(t, end) = char
         THEN end
         ELSE StringLoop_unescaped(t, end + 1, char, FALSE)
    ELSE end

\* the while loop of the string rule: stops at the first unescaped quote
RECURSIVE StringLoop(_, _, _, _)
StringLoop(t, end, char, escaped) ==
    IF end < Len(t)
    THEN IF At(t, end) = char /\ ~escaped
         THEN end
         ELSE StringLoop(t, end + 1, char,
                         IF At(t, end) = "\\" THEN ~escaped ELSE FALSE)
    ELSE end

StringEnd(t, p) ==
    LET end == StringLoop(t, p + 1, At(t, p), FALSE)
    IN  IF end < Len(t) THEN end + 1 ELSE end

\* utils.consume(iterator, n): the iterator, about to yield index `next`,
\* is advanced n steps and stops at the end of the text
consume(t, next, n) == IF next + n > Len(t) THEN Len(t) ELSE next + n

Tok(ttype, value) == [ttype |-> ttype, value |-> value]

\* the rule that handles the character at p, in the order the code tries them
Rule(t, p) ==
    LET char == At(t, p)
    IN  CASE char \in SpaceChars -> "whitespace"
          [] char \notin SpaceChars /\ char = "-" /\ p + 1 >= Len(t)
                -> "index_error"
          [] char \notin SpaceChars /\ char = "-" /\ p + 1 < Len(t)
                /\ At(t, p + 1) = "-" -> "comment"
          [] char \in QuoteChars -> "string"
          [] char \in DigitChars -> "number"
          [] char \in NameStart -> "name"
          [] char \in OperatorChars /\ ~(char = "-" /\ p + 1 >= Len(t))
                /\ ~(char = "-" /\ p + 1 < Len(t) /\ At(t, p + 1) = "-")
                -> "operator"
          [] char \in PunctuationChars -> "punctuation"
          [] OTHER -> "error"

\* the end (exclusive) of the token that starts at p
TokenEnd(t, p) ==
    LET r == Rule(t, p)
    IN  CASE r = "whitespace" -> ScanWhile(t, p + 1, SpaceChars)
          [] r = "comment" -> FindOrLen(t, "\n", p)
          [] r = "string" -> StringEnd(t, p)
          [] r = "number" -> ScanWhile(t, p + 1, NumberChars)
          [] r = "name" -> ScanWhile(t, p + 1, NameChars)
          [] r = "operator" -> ScanWhile(t, p + 1, OperatorChars)
          [] OTHER -> p + 1

\* the type of the token that starts at p
TokenType(t, p) ==
    LET r == Rule(t, p)
        word == Slice(t, p, TokenEnd(t, p))
    IN  CASE r = "whitespace" -> T_Whitespace
          [] r = "comment" -> T_Comment_Single
          [] r = "string" -> T_String
          [] r = "number" -> T_Number
          [] r = "name" -> IF Upper(word) \in {W_ASC, W_DESC}
                           THEN T_Keyword_Order
                           ELSE is_keyword(word)
          [] r = "operator" -> T_Operator
          [] r = "punctuation" -> T_Punctuation
          [] OTHER -> T_Error

(***************************************************************************)
(* Lexer.get_tokens as a generator: one action per rule; each yields one   *)
(* token and leaves the iterator at the token's end.                       *)
(***************************************************************************)
Yield(rule) ==
    /\ lpc = "scan"
    /\ pos < Len(text)
    /\ Rule(text, pos) = rule
    /\ LET end == TokenEnd(text, pos)
       IN  /\ pos' = consume(text, pos + 1, end - pos - 1)
           /\ out' = Append(out, Tok(TokenType(text, pos), Slice(text, pos, end)))
    /\ UNCHANGED <<text, lpc, exc>>
    /\ UNCHANGED runVars
    /\ UNCHANGED sysVars
    /\ UNCHANGED treeVars
    /\ UNCHANGED groupVars

LexWhitespace ==
    /\ pos < Len(text)
    /\ Yield("whitespace")

LexComment ==
    /\ pos < Len(text)
    /\ Yield("comment")

LexString ==
    /\ pos < Len(text)
    /\ Yield("string")

LexNumber ==
    /\ pos < Len(text)
    /\ Yield("number")

LexName ==
    /\ pos < Len(text)
    /\ Yield("name")

LexOperator ==
    /\ pos < Len(text)
    /\ Yield("operator")

LexPunctuation ==
    /\ pos < Len(text)
    /\ Yield("punctuation")

LexError ==
    /\ pos < Len(text)
    /\ Yield("error")

\* char == '-' at the last index: text[pos + 1] raises IndexError
LexIndexError ==
    /\ lpc = "scan"
    /\ pos < Len(text)
    /\ Rule(text, pos) = "index_error"
    /\ lpc' = "raised"
    /\ exc' = "IndexError"
    /\ pos' = pos + 1
    /\ UNCHANGED <<text, out>>
    /\ UNCHANGED runVars
    /\ UNCHANGED sysVars
    /\ UNCHANGED treeVars
    /\ UNCHANGED groupVars

\* the for loop ends: the generator is exhausted
LexExhausted ==
    /\ lpc = "scan"
    /\ pos >= Len(text)
    /\ lpc' = "done"
    /\ UNCHANGED <<text, pos, out, exc>>
    /\ UNCHANGED runVars
    /\ UNCHANGED sysVars
    /\ UNCHANGED treeVars
    /\ UNCHANGED groupVars

\* list(Lexer.get_tokens(t)) from index p: the tokens yielded before the
\* generator is exhausted or raises
RECURSIVE LexFrom(_, _)
LexFrom(t, p) ==
    IF p >= Len(t) \/ Rule(t, p) = "index_error"
    THEN <<>>
    ELSE <<Tok(TokenType(t, p), Slice(t, p, TokenEnd(t, p)))>>
         \o LexFrom(t, TokenEnd(t, p))

\* whether iterating Lexer.get_tokens(t) from index p raises
RECURSIVE LexRaises(_, _)
LexRaises(t, p) ==
    IF p >= Len(t) THEN FALSE
    ELSE IF Rule(t, p) = "index_error" THEN TRUE
    ELSE LexRaises(t, TokenEnd(t, p))

(***************************************************************************)
(* engine/statement_splitter.py and engine/filter_stack.py.                *)
(* A stream is None, the lexer's generator (not yet advanced) or a list.   *)
(***************************************************************************)
NoneStream == [kind |-> "None", items |-> <<>>]

\* lexer.tokenize: get_tokens is a generator function, so the call returns a
\* generator without scanning anything
tokenize(s) == [kind |-> "generator", items |-> s]

\* StatementSplitter.process: the body is `pass`; the stream is not read
\* and None is returned
StatementSplitter_process(s) == NoneStream

RunTokenize ==
    /\ rpc = "start"
    /\ stream' = tokenize(sql)
    /\ rpc' = "tokenized"
    /\ UNCHANGED <<sql, grouping, ret, exc>>
    /\ UNCHANGED lexVars
    /\ UNCHANGED sysVars
    /\ UNCHANGED treeVars
    /\ UNCHANGED groupVars

\* stream = StatementSplitter().process(stream); preprocess is empty
RunSplit ==
    /\ rpc = "tokenized"
    /\ stream' = StatementSplitter_process(stream)
    /\ rpc' = "split"
    /\ UNCHANGED <<sql, grouping, ret, exc>>
    /\ UNCHANGED lexVars
    /\ UNCHANGED sysVars
    /\ UNCHANGED treeVars
    /\ UNCHANGED groupVars

\* if self._grouping: stream = grouping.group(stream).  group reads
\* stream.tokens first (_group_matching), which neither None nor a list has
RunGroup ==
    /\ rpc = "split"
    /\ grouping
    /\ rpc' = "raised"
    /\ exc' = "AttributeError"
    /\ UNCHANGED <<sql, grouping, stream, ret>>
    /\ UNCHANGED lexVars
    /\ UNCHANGED sysVars
    /\ UNCHANGED treeVars
    /\ UNCHANGED groupVars

\* for stmt in stream: ... ret.append(stmt); return ret.  Iterating None
\* raises TypeError; a TokenList is never whitespace, stmtprocess and
\* postprocess are empty
RunStatements ==
    /\ rpc = "split"
    /\ ~grouping
    /\ IF stream.kind = "None"
       THEN /\ rpc' = "raised"
            /\ exc' = "TypeError"
            /\ ret' = ret
       ELSE /\ rpc' = "returned"
            /\ exc' = exc
            /\ ret' = stream.items
    /\ UNCHANGED <<sql, grouping, stream>>
    /\ UNCHANGED lexVars
    /\ UNCHANGED sysVars
    /\ UNCHANGED treeVars
    /\ UNCHANGED groupVars

(***************************************************************************)
(* sql.py: Token and TokenList objects.  heap[id] is the object with that  *)
(* id: cls is its class ("Token" for a leaf), tokens its children (ids),   *)
(* parent the id of its parent or 0 for None.                              *)
(***************************************************************************)
None == 0

\* an optional int: <<>> is None, <<i>> is the int i
NoneInt == <<>>

Int_(i) == <<i>>

\* Token.__init__(ttype, value)
Token__init__(ttype, value) ==
    [cls |-> "Token", ttype |-> ttype, value |-> value, parent |-> None,
     tokens |-> <<>>]

is_group(h, id) == h[id].cls # "Token"

is_whitespace(h, id) == TypeIn(h[id].ttype, T_Whitespace)

is_keyword_token(h, id) == TypeIn(h[id].ttype, T_Keyword)

\* Token.normalized
normalized(h, id) ==
    IF is_keyword_token(h, id) THEN Upper(h[id].value) ELSE h[id].value

\* TokenList.flatten / Token.flatten: the leaves below id, in order
RECURSIVE flatten(_, _)
RECURSIVE flatten_list(_, _)
flatten(h, id) ==
    IF is_group(h, id) THEN flatten_list(h, h[id].tokens) ELSE <<id>>

flatten_list(h, ids) ==
    IF ids = <<>> THEN <<>>
    ELSE (IF is_group(h, Head(ids))
          THEN flatten_list(h, h[Head(ids)].tokens)
          ELSE <<Head(ids)>>) \o flatten_list(h, Tail(ids))

\* ''.join(token.value for token in ...)
RECURSIVE join_values(_, _)
join_values(h, ids) ==
    IF ids = <<>> THEN <<>>
    ELSE h[Head(ids)].value \o join_values(h, Tail(ids))

\* TokenList.__str__
str(h, id) == join_values(h, flatten(h, id))

(***************************************************************************)
(* Python list indexing, slicing, slice assignment and list.insert.        *)
(***************************************************************************)
Min(a, b) == IF a < b THEN a ELSE b

Max(a, b) == IF a > b THEN a ELSE b

\* a slice bound or insert position i brought into 0..L
Clamp(i, L) == IF i < 0 THEN Max(i + L, 0) ELSE Min(i, L)

SliceLo(L, a) == IF a = NoneInt THEN 0 ELSE Clamp(a[1], L)

SliceHi(L, b) == IF b = NoneInt THEN L ELSE Clamp(b[1], L)

\* s[a:b]
PySlice(s, a, b) ==
    LET lo == SliceLo(Len(s), a)
        hi == SliceHi(Len(s), b)
    IN  IF hi > lo THEN SubSeq(s, lo + 1, hi) ELSE <<>>

\* s[a:b] = new
PySliceAssign(s, a, b, new) ==
    LET lo == SliceLo(Len(s), a)
        hi == Max(SliceHi(Len(s), b), lo)
    IN  SubSeq(s, 1, lo) \o new \o SubSeq(s, hi + 1, Len(s))

\* s.insert(i, x)
PyInsert(s, i, x) ==
    LET k == Clamp(i, Len(s))
    IN  SubSeq(s, 1, k) \o <<x>> \o SubSeq(s, k + 1, Len(s))

\* whether s[i] raises IndexError
IndexFails(s, i) == i >= Len(s) \/ i < 0 - Len(s)

\* s[i], for an i that does not fail
PyItem(s, i) == IF i < 0 THEN s[i + Len(s) + 1] ELSE s[i + 1]

(***************************************************************************)
(* TokenList.__init__(tokens): the new object gets the next id; every      *)
(* token's parent is set to it.  The new object's own parent is None.      *)
(***************************************************************************)
InSeq(x, s) == \E i \in 1..Len(s) : s[i] = x

TokenList__init__(h, cls, toks) ==
    LET self == Len(h) + 1
        adopted == [id \in 1..Len(h) |->
                       IF InSeq(id, toks)
                       THEN [h[id] EXCEPT !.parent = self]
                       ELSE h[id]]
        obj == [cls |-> cls, ttype |-> T_None, value |-> <<>>,
                parent |-> None, tokens |-> toks]
        h1 == Append(adopted, obj)
    IN  [h1 EXCEPT ![self].value = str(h1, self)]

\* TokenList.token_index(token, start=0)
token_index(h, self, token) ==
    IF InSeq(token, h[self].tokens)
    THEN Int_((CHOOSE i \in 1..Len(h[self].tokens) :
                  /\ h[self].tokens[i] = token
                  /\ \A j \in 1..(i - 1) : h[self].tokens[j] # token) - 1)
    ELSE NoneInt

\* an index argument: an int, or a token to be looked up by token_index
IntArg(i) == [int |-> TRUE, v |-> i]

TokenArg(t) == [int |-> FALSE, v |-> t]

\* if not isinstance(x, int): x = self.token_index(x)
ResolveIndex(h, self, arg) ==
    IF arg.int THEN Int_(arg.v) ELSE token_index(h, self, arg.v)

(***************************************************************************)
(* TokenList.group_tokens(grp_cls, start, end, include_end, extend).       *)
(* The result is the heap after the call, the returned object and the      *)
(* exception raised ("" for none).                                         *)
(***************************************************************************)
Outcome(h, r, e) == [heap |-> h, ret |-> r, exc |-> e]

\* the loop of `if extend:` from an int end: the new end and the exception
\* raised.  isinstance(x, (Comment, None)) is True for a Comment and raises
\* TypeError for anything else
RECURSIVE ExtendLoop(_, _, _)
ExtendLoop(h, self, end) ==
    IF end < Len(h[self].tokens) - 1
    THEN IF IndexFails(h[self].tokens, end + 1)
         THEN [end |-> end, exc |-> "IndexError"]
         ELSE IF h[PyItem(h[self].tokens, end + 1)].cls = "Comment"
              THEN ExtendLoop(h, self, end + 1)
              ELSE [end |-> end, exc |-> "TypeError"]
    ELSE [end |-> end, exc |-> ""]

\* grp = grp_cls(self.tokens[start:end]); self.tokens[start:end] = [grp]
ReplaceRange(h, self, grp_cls, start, end) ==
    LET h1 == TokenList__init__(h, grp_cls, PySlice(h[self].tokens, start, end))
        grp == Len(h1)
    IN  Outcome([h1 EXCEPT ![self].tokens =
                     PySliceAssign(h[self].tokens, start, end, <<grp>>)],
                grp, "")

\* group_tokens without the step `if include_end: end += 1`
IncludeEnd_never(h, self, grp_cls, start, end, include_end) ==
    ReplaceRange(h, self, grp_cls, start, end)

\* end += 1 when include_end; None + 1 raises TypeError
IncludeEnd(h, self, grp_cls, start, end, include_end) ==
    IF include_end
    THEN IF end = NoneInt
         THEN Outcome(h, None, "TypeError")
         ELSE ReplaceRange(h, self, grp_cls, start, Int_(end[1] + 1))
    ELSE ReplaceRange(h, self, grp_cls, start, end)

group_tokens(h, self, grp_cls, start_arg, end_arg, include_end, extend) ==
    LET start == ResolveIndex(h, self, start_arg)
        end == ResolveIndex(h, self, end_arg)
    IN  IF extend
        THEN IF end = NoneInt
             THEN Outcome(h, None, "TypeError")
             ELSE LET x == ExtendLoop(h, self, end[1])
                  IN  IF x.exc # ""
                      THEN Outcome(h, None, x.exc)
                      ELSE IncludeEnd(h, self, grp_cls, start, Int_(x.end),
                                      include_end)
        ELSE IncludeEnd(h, self, grp_cls, start, end, include_end)

(***************************************************************************)
(* TokenList._token_matching, token_next, insert_before, insert_after.     *)
(***************************************************************************)
\* _token_matching(funcs, start, end=None) with funcs = [not whitespace]:
\* the first child in tokens[start:] that is not whitespace, or None
RECURSIVE FirstNotWhitespace(_, _)
FirstNotWhitespace(h, toks) ==
    IF toks = <<>> THEN None
    ELSE IF ~is_whitespace(h, Head(toks)) THEN Head(toks)
    ELSE FirstNotWhitespace(h, Tail(toks))

\* token_next(idx) with skip_ws=True, skip_cm=False
token_next(h, self, idx) ==
    FirstNotWhitespace(h, PySlice(h[self].tokens, Int_(idx + 1), NoneInt))

\* insert_before(where, token): token.parent is set before the list insert,
\* which raises TypeError for where = None
insert_before(h, self, where_arg, token) ==
    LET where == ResolveIndex(h, self, where_arg)
        h1 == [h EXCEPT ![token].parent = self]
    IN  IF where = NoneInt
        THEN Outcome(h1, None, "TypeError")
        ELSE Outcome([h1 EXCEPT ![self].tokens =
                          PyInsert(h[self].tokens, where[1], token)],
                     None, "")

\* insert_after(where, token, skip_ws): with skip_ws the token goes before
\* the next child that is not whitespace.  None + 1 raises TypeError: in
\* token_next, before the parent is set, or in the insert, after it
insert_after(h, self, where_arg, token, skip_ws) ==
    LET where0 == ResolveIndex(h, self, where_arg)
        h1 == [h EXCEPT ![token].parent = self]
    IN  IF where0 = NoneInt
        THEN IF skip_ws
             THEN Outcome(h, None, "TypeError")
             ELSE Outcome(h1, None, "TypeError")
        ELSE LET next_token == IF skip_ws
                               THEN token_next(h, self, where0[1])
                               ELSE None
                 where == IF next_token # None
                          THEN token_index(h, self, next_token)[1] - 1
                          ELSE where0[1]
             IN  Outcome([h1 EXCEPT ![self].tokens =
                              PyInsert(h[self].tokens, where + 1, token)],
                         None, "")

(***************************************************************************)
(* Token.match and utils.imt.                                              *)
(* A match argument is ttype (one token type, a tuple of types, or None)   *)
(* and values (None or a collection of words).                             *)
(***************************************************************************)
OneType(T) == [kind |-> "type", types |-> {T}]

TupleOfTypes(S) == [kind |-> "tuple", types |-> S]

\* imt(token, t=ttype).  A token type is itself a tuple (of the names on
\* its path), so isinstance(t, (list, tuple)) holds for it and the loop
\* compares token.ttype with those names: no name `is` a token type.  For a
\* tuple of types the loop compares with each type
imt_t(h, token, t) ==
    IF t.kind = "type" THEN FALSE ELSE h[token].ttype \in t.types

\* whether `sub` occurs in `word`: re.search of a plain word
Occurs(sub, word) ==
    \E i \in 0..(Len(word) - Len(sub)) : Slice(word, i, i + Len(sub)) = sub

\* Token.match(ttype, values, regex); ttype is never None in the callers
match(h, token, ttype, values, regex) ==
    IF ~imt_t(h, token, ttype) THEN FALSE
    ELSE IF regex
         THEN \E v \in values :
                 IF is_keyword_token(h, token)
                 THEN Occurs(Upper(v), normalized(h, token))
                 ELSE Occurs(v, h[token].value)
         ELSE IF is_keyword_token(h, token)
              THEN normalized(h, token) \in {Upper(v) : v \in values}
              ELSE h[token].value \in values

(***************************************************************************)
(* The M_OPEN class attributes of sql.py, as the arguments that            *)
(* token.match receives when cls.M_OPEN is unpacked into it.                *)
(* TypedLiteral.M_OPEN is a list of two pairs: the first pair arrives as   *)
(* ttype, the second as values.                                            *)
(***************************************************************************)
HasM_OPEN(cls) ==
    cls \in {"Parenthesis", "SquareBrackets", "Case", "If", "For", "Begin",
             "TypedLiteral", "Where", "Over", "Having"}

M_OPEN_ttype(cls) ==
    CASE cls \in {"Parenthesis", "SquareBrackets"} -> OneType(T_Punctuation)
      [] cls = "TypedLiteral" -> TupleOfTypes({T_Name_Builtin, T_None})
      [] OTHER -> OneType(T_Keyword)

M_OPEN_values(cls) ==
    CASE cls = "Parenthesis" -> {<<"(">>}
      [] cls = "SquareBrackets" -> {<<"[">>}
      [] cls = "Case" -> {W_CASE}
      [] cls = "If" -> {W_IF}
      [] cls = "For" -> {W_FOR, W_FOREACH}
      [] cls = "Begin" -> {W_BEGIN}
      [] cls = "TypedLiteral" -> {W_TIMESTAMP}
      [] cls = "Where" -> {W_WHERE}
      [] cls = "Over" -> {W_OVER}
      [] cls = "Having" -> {W_HAVING}
      [] OTHER -> {}

(***************************************************************************)
(* engine/grouping.py.  Each pass answers an Outcome: the heap after it    *)
(* and the exception it raised.                                            *)
(***************************************************************************)
\* tlist.token_matching(token, idx): TokenList has no such attribute
token_matching(h, tlist, token, idx) == Outcome(h, None, "AttributeError")

\* tlist.group_tokens(cls, tokens): the required argument `end` is missing
group_tokens_list(h, tlist, cls, toks) == Outcome(h, None, "TypeError")

\* _group_matching deleting the whitespace tokens it steps over
RECURSIVE group_matching_strip(_, _, _, _)
group_matching_strip(h, tlist, cls, idx) ==
    IF idx < Len(h[tlist].tokens)
    THEN LET token == At(h[tlist].tokens, idx)
         IN  IF is_whitespace(h, token)
             THEN group_matching_strip(
                      [h EXCEPT ![tlist].tokens =
                           PySliceAssign(h[tlist].tokens, Int_(idx),
                                         Int_(idx + 1), <<>>)],
                      tlist, cls, idx)
             ELSE Outcome(h, None, "AttributeError")
    ELSE Outcome(h, None, "")

\* _group_matching(tlist, cls), from index idx
RECURSIVE group_matching(_, _, _, _)
group_matching(h, tlist, cls, idx) ==
    IF idx < Len(h[tlist].tokens)
    THEN LET token == At(h[tlist].tokens, idx)
         IN  IF is_whitespace(h, token)
             THEN group_matching(h, tlist, cls, idx + 1)
             ELSE IF ~HasM_OPEN(cls)
                  THEN Outcome(h, None, "AttributeError")
                  ELSE IF match(h, token, M_OPEN_ttype(cls),
                                M_OPEN_values(cls), FALSE)
                       THEN token_matching(h, tlist, token, idx)
                       ELSE group_matching(h, tlist, cls, idx + 1)
    ELSE Outcome(h, None, "")

\* the classes group() hands to _group_matching, in order
MatchingClasses ==
    <<"Parenthesis", "SquareBrackets", "Case", "If", "For", "Begin",
      "TypedLiteral", "Identifier", "IdentifierList", "Operation", "Values",
      "Command">>

\* the (cls, match) pairs group() hands to _group, in order.  The first two
\* match tuples hold one element, so token.match, called with the tuple
\* unpacked, lacks its argument `values`
MiddlePasses ==
    <<[cls |-> "Comparison", arity |-> 1,
       ttype |-> OneType(T_Operator_Comparison), values |-> {}],
      [cls |-> "Assignment", arity |-> 1,
       ttype |-> OneType(T_Assignment), values |-> {}],
      [cls |-> "Where", arity |-> 2,
       ttype |-> OneType(T_Keyword), values |-> {W_WHERE}],
      [cls |-> "Having", arity |-> 2,
       ttype |-> OneType(T_Keyword), values |-> {W_HAVING}],
      [cls |-> "Over", arity |-> 2,
       ttype |-> OneType(T_Keyword), values |-> {W_OVER}]>>

\* the look-ahead loop of _group (x > y > z): the exception it ends in.  It
\* raises IndexError reading tokens[end + 2] past the list; otherwise the
\* group_tokens call that follows it raises TypeError
RECURSIVE LookAhead(_, _, _, _)
LookAhead(h, tlist, m, end) ==
    IF end < Len(h[tlist].tokens) - 1
    THEN LET next_token == At(h[tlist].tokens, end + 1)
         IN  IF is_whitespace(h, next_token)
             THEN LookAhead(h, tlist, m, end + 1)
             ELSE IF match(h, next_token, m.ttype, m.values, FALSE)
                  THEN IF end + 2 >= Len(h[tlist].tokens)
                       THEN "IndexError"
                       ELSE LookAhead(h, tlist, m, end + 2)
                  ELSE "TypeError"
    ELSE "TypeError"

\* _group(tlist, cls, match), from index idx (the loop starts at 1)
RECURSIVE group_middle(_, _, _, _)
group_middle(h, tlist, m, idx) ==
    IF idx < Len(h[tlist].tokens) - 1
    THEN LET token == At(h[tlist].tokens, idx)
         IN  IF is_whitespace(h, token)
             THEN group_middle(h, tlist, m, idx + 1)
             ELSE IF m.arity = 1
                  THEN Outcome(h, None, "TypeError")
                  ELSE IF match(h, token, m.ttype, m.values, FALSE)
                       THEN Outcome(h, None, LookAhead(h, tlist, m, idx + 1))
                       ELSE group_middle(h, tlist, m, idx + 1)
    ELSE Outcome(h, None, "")

\* the body of group_order, from index idx
RECURSIVE group_order_body(_, _, _)
group_order_body(h, tlist, idx) ==
    IF idx < Len(h[tlist].tokens) - 1
    THEN LET token == At(h[tlist].tokens, idx)
             next_token == At(h[tlist].tokens, idx + 1)
         IN  IF is_whitespace(h, token) \/ is_group(h, token)
                \/ is_whitespace(h, next_token)
             THEN group_order_body(h, tlist, idx + 1)
             ELSE IF /\ h[token].ttype \in {T_Name, T_String_Symbol, T_Number}
                     /\ match(h, next_token, OneType(T_Keyword),
                              {W_ASC, W_DESC}, TRUE)
                  THEN group_tokens_list(h, tlist, "Identifier",
                                         <<token, next_token>>)
                  ELSE group_order_body(h, tlist, idx + 1)
    ELSE Outcome(h, None, "")

\* @recurse(sql.Identifier): the objects f is applied to before tlist
\* itself, the Identifier objects among token.flatten() of each child that
\* is no Identifier.  flatten yields leaves only
recurse_targets(h, tlist) ==
    {t \in 1..Len(h) :
        /\ h[t].cls = "Identifier"
        /\ \E c \in 1..Len(h[tlist].tokens) :
              /\ h[h[tlist].tokens[c]].cls # "Identifier"
              /\ InSeq(t, flatten(h, h[tlist].tokens[c]))}

RECURSIVE group_order_each(_, _)
group_order_each(h, ts) ==
    IF ts = {} THEN Outcome(h, None, "")
    ELSE LET t == CHOOSE x \in ts : \A y \in ts : x <= y
             o == group_order_body(h, t, 0)
         IN  IF o.exc # "" THEN o ELSE group_order_each(o.heap, ts \ {t})

group_order(h, tlist) ==
    LET o == group_order_each(h, recurse_targets(h, tlist))
    IN  IF o.exc # "" THEN o ELSE group_order_body(o.heap, tlist, 0)

(***************************************************************************)
(* Calls of the TokenList API by a client: the constructor, group_tokens,  *)
(* insert_before and insert_after, with an int or a token as an index.     *)
(***************************************************************************)
NoCall ==
    [op |-> "", self |-> None, grp_cls |-> "", start |-> IntArg(0),
     end |-> IntArg(0), include_end |-> FALSE, extend |-> FALSE,
     where |-> IntArg(0), token |-> None, skip_ws |-> FALSE, ret |-> None,
     old |-> <<>>, skip_cm |-> FALSE, idx |-> 0, offset |-> 0]

Groups(h) == {id \in 1..Len(h) : is_group(h, id)}

\* the ints around the valid indices of self, and every object as a token
IndexArgs(h, self) ==
    {IntArg(i) : i \in (0 - 1)..Len(h[self].tokens)}
    \cup {TokenArg(t) : t \in 1..Len(h)}

GroupClasses == {"Parenthesis", "Comment"}

LeafKinds == {Tok(T_Whitespace, <<" ">>), Tok(T_Name, <<"a">>)}

\* the first TokenList made: the root of the tree
Root(h) == CHOOSE id \in Groups(h) : \A g \in Groups(h) : id <= g

\* the objects API calls have added since the root was made
Added(h) == Len(h) - Root(h)

\* a call as the grouping passes are written to make it: an inclusive range
\* of existing children
InRange(h, self, start, end) ==
    /\ start.int
    /\ end.int
    /\ 0 <= start.v
    /\ start.v <= end.v
    /\ end.v < Len(h[self].tokens)

Canonical(c) ==
    /\ c.op = "group_tokens"
    /\ InRange(c.old, c.self, c.start, c.end)
    /\ c.include_end
    /\ ~c.extend

\* the client makes one call on the tree, or two when the first is a
\* successful grouping of a range
MayCall ==
    /\ gpc = "idle"
    /\ call.op # ""
    /\ \/ call.op = "TokenList"
       \/ /\ Added(heap) = 1
          /\ exc = ""
          /\ Canonical(call)

\* TokenList(tokens) over the tokens made so far
Construct ==
    /\ call.op = ""
    /\ heap' = TokenList__init__(heap, "TokenList",
                                 [i \in 1..Len(heap) |-> i])
    /\ call' = [NoCall EXCEPT !.op = "TokenList", !.ret = Len(heap) + 1,
                              !.old = heap]
    /\ exc' = ""
    /\ UNCHANGED lexVars
    /\ UNCHANGED runVars
    /\ UNCHANGED sysVars
    /\ UNCHANGED groupVars

GroupTokensCall ==
    /\ MayCall
    /\ \E self \in Groups(heap), grp_cls \in GroupClasses,
          include_end \in BOOLEAN, extend \in BOOLEAN :
       \E start \in IndexArgs(heap, self), end \in IndexArgs(heap, self) :
          LET r == group_tokens(heap, self, grp_cls, start, end,
                                include_end, extend)
          IN  /\ heap' = r.heap
              /\ exc' = r.exc
              /\ call' = [NoCall EXCEPT !.op = "group_tokens",
                             !.self = self, !.grp_cls = grp_cls,
                             !.start = start, !.end = end,
                             !.include_end = include_end,
                             !.extend = extend, !.ret = r.ret,
                             !.old = heap]
    /\ UNCHANGED lexVars
    /\ UNCHANGED runVars
    /\ UNCHANGED sysVars
    /\ UNCHANGED groupVars

\* tlist.insert_before(where, Token(ttype, value))
InsertBeforeCall ==
    /\ MayCall
    /\ \E self \in Groups(heap), kind \in LeafKinds :
       \E where \in IndexArgs(heap, self) :
          LET h0 == Append(heap, Token__init__(kind.ttype, kind.value))
              r == insert_before(h0, self, where, Len(h0))
          IN  /\ heap' = r.heap
              /\ exc' = r.exc
              /\ call' = [NoCall EXCEPT !.op = "insert_before",
                             !.self = self, !.where = where,
                             !.token = Len(h0), !.old = h0]
    /\ UNCHANGED lexVars
    /\ UNCHANGED runVars
    /\ UNCHANGED sysVars
    /\ UNCHANGED groupVars

\* tlist.insert_after(where, Token(ttype, value), skip_ws)
InsertAfterCall ==
    /\ MayCall
    /\ \E self \in Groups(heap), kind \in LeafKinds, skip_ws \in BOOLEAN :
       \E where \in IndexArgs(heap, self) :
          LET h0 == Append(heap, Token__init__(kind.ttype, kind.value))
              r == insert_after(h0, self, where, Len(h0), skip_ws)
          IN  /\ heap' = r.heap
              /\ exc' = r.exc
              /\ call' = [NoCall EXCEPT !.op = "insert_after",
                             !.self = self, !.where = where,
                             !.token = Len(h0), !.skip_ws = skip_ws,
                             !.old = h0]
    /\ UNCHANGED lexVars
    /\ UNCHANGED runVars
    /\ UNCHANGED sysVars
    /\ UNCHANGED groupVars

\* one call of group_tokens with an inclusive range of existing children,
\* made on the root before anything else is done to the tree
GroupRange ==
    /\ gpc = "idle"
    /\ call.op = "TokenList"
    /\ \E grp_cls \in GroupClasses :
       \E s \in 0..(Len(heap[Root(heap)].tokens) - 1) :
       \E e \in s..(Len(heap[Root(heap)].tokens) - 1) :
          LET r == group_tokens(heap, Root(heap), grp_cls, IntArg(s),
                                IntArg(e), TRUE, FALSE)
          IN  /\ heap' = r.heap
              /\ exc' = r.exc
              /\ call' = [NoCall EXCEPT !.op = "group_tokens",
                             !.self = Root(heap), !.grp_cls = grp_cls,
                             !.start = IntArg(s), !.end = IntArg(e),
                             !.include_end = TRUE, !.ret = r.ret,
                             !.old = heap]
    /\ UNCHANGED lexVars
    /\ UNCHANGED runVars
    /\ UNCHANGED sysVars
    /\ UNCHANGED groupVars

(***************************************************************************)
(* grouping.group(stream) on the root of the tree, one action per pass.    *)
(***************************************************************************)
GroupCall ==
    /\ gpc = "idle"
    /\ call.op # ""
    /\ gpc' = "matching"
    /\ gpass' = 1
    /\ exc' = ""
    /\ call' = [NoCall EXCEPT !.op = "group", !.self = Root(heap),
                              !.old = heap]
    /\ UNCHANGED heap
    /\ UNCHANGED lexVars
    /\ UNCHANGED runVars
    /\ UNCHANGED sysVars

\* for cls in (...): _group_matching(stream, cls)
GroupMatchingPass ==
    /\ gpc = "matching"
    /\ LET o == group_matching(heap, call.self, MatchingClasses[gpass], 0)
       IN  /\ heap' = o.heap
           /\ exc' = o.exc
           /\ gpc' = IF o.exc # "" THEN "raised"
                     ELSE IF gpass = Len(MatchingClasses) THEN "middle"
                     ELSE "matching"
           /\ gpass' = IF o.exc # "" THEN gpass
                       ELSE IF gpass = Len(MatchingClasses) THEN 1
                       ELSE gpass + 1
    /\ UNCHANGED call
    /\ UNCHANGED lexVars
    /\ UNCHANGED runVars
    /\ UNCHANGED sysVars

\* _group(stream, cls, match) for Comparison, Assignment, Where, Having, Over
GroupMiddlePass ==
    /\ gpc = "middle"
    /\ LET o == group_middle(heap, call.self, MiddlePasses[gpass], 1)
       IN  /\ heap' = o.heap
           /\ exc' = o.exc
           /\ gpc' = IF o.exc # "" THEN "raised"
                     ELSE IF gpass = Len(MiddlePasses) THEN "order"
                     ELSE "middle"
           /\ gpass' = IF o.exc # "" THEN gpass
                       ELSE IF gpass = Len(MiddlePasses) THEN 1
                       ELSE gpass + 1
    /\ UNCHANGED call
    /\ UNCHANGED lexVars
    /\ UNCHANGED runVars
    /\ UNCHANGED sysVars

\* group_order(stream); return stream
GroupOrderPass ==
    /\ gpc = "order"
    /\ LET o == group_order(heap, call.self)
       IN  /\ heap' = o.heap
           /\ exc' = o.exc
           /\ gpc' = IF o.exc # "" THEN "raised" ELSE "returned"
           /\ call' = IF o.exc # "" THEN call
                      ELSE [call EXCEPT !.ret = call.self]
    /\ UNCHANGED gpass
    /\ UNCHANGED lexVars
    /\ UNCHANGED runVars
    /\ UNCHANGED sysVars

(***************************************************************************)
(* Inputs.                                                                 *)
(***************************************************************************)
Alphabet == {" ", "\n", "-", "'", "\\", "1", ".", "a", "<", ";", "?"}

Texts == UNION {[1..n -> Alphabet] : n \in 0..MaxLen}

\* the statements the documentation of the splitter and of the grouping
\* engine is written about
Sql_TwoStatements ==
    W_SELECT \o <<" ", "1", ";", " ">> \o W_SELECT \o <<" ", "2", ";">>

Sql_BeginBlock ==
    W_BEGIN \o <<" ">> \o W_SELECT \o <<" ", "1", ";", " ">> \o W_END \o <<";">>

Sql_NoTerminator == W_SELECT \o <<" ", "1">>

Sql_Nested == <<"(", "a", " ", "(", "b", ")", " ", "c", ")">>

Sql_Chain == <<"a", " ", "<", " ", "b", " ", "<", " ", "c">>

Sql_Unbalanced == W_SELECT \o <<" ", "(", "1", ",", " ", "2">>

SqlExamples ==
    {Sql_TwoStatements, Sql_BeginBlock, Sql_NoTerminator, Sql_Nested,
     Sql_Chain, Sql_Unbalanced}

GroupAlphabet == {" ", "(", ")", "a", "<"}

GroupTexts ==
    UNION {[1..n -> GroupAlphabet] : n \in 0..MaxGroupLen}
    \cup {Sql_Nested, Sql_Chain, Sql_Unbalanced, W_TIMESTAMP}

LexIdle ==
    /\ text = <<>>
    /\ pos = 0
    /\ out = <<>>
    /\ lpc = "scan"

TreeIdle ==
    /\ heap = <<>>
    /\ call = NoCall

GroupIdle ==
    /\ gpc = "idle"
    /\ gpass = 1

RunIdle ==
    /\ sql = <<>>
    /\ grouping = FALSE
    /\ stream = NoneStream
    /\ ret = <<>>
    /\ rpc = "start"

\* no thread has called get_default_instance and cli.main is not running
SysIdle ==
    /\ lexer = [lock |-> 0, default_instance |-> 0, instances |-> <<>>]
    /\ proc = <<>>
    /\ cli = [pc |-> "idle"]

(***************************************************************************)
(* SpecLexer: one scan of Lexer.get_tokens(text) to exhaustion.            *)
(***************************************************************************)
LexInit ==
    /\ text \in Texts
    /\ pos = 0
    /\ out = <<>>
    /\ lpc = "scan"
    /\ exc = ""
    /\ RunIdle
    /\ TreeIdle
    /\ GroupIdle
    /\ SysIdle

LexNext ==
    \/ LexWhitespace
    \/ LexComment
    \/ LexString
    \/ LexNumber
    \/ LexName
    \/ LexOperator
    \/ LexPunctuation
    \/ LexError
    \/ LexIndexError
    \/ LexExhausted

SpecLexer == LexInit /\ [][LexNext]_vars

(***************************************************************************)
(* SpecRun: one call of FilterStack.run(sql), grouping enabled or not.     *)
(***************************************************************************)
RunInit ==
    /\ sql \in Texts \cup SqlExamples
    /\ grouping \in BOOLEAN
    /\ stream = NoneStream
    /\ ret = <<>>
    /\ rpc = "start"
    /\ exc = ""
    /\ LexIdle
    /\ TreeIdle
    /\ GroupIdle
    /\ SysIdle

RunNext ==
    \/ RunTokenize
    \/ RunSplit
    \/ RunGroup
    \/ RunStatements

SpecRun == RunInit /\ [][RunNext]_vars

(***************************************************************************)
(* SpecTree: a client makes leaf tokens, builds a TokenList from them and  *)
(* calls group_tokens, insert_before and insert_after on the tree.         *)
(***************************************************************************)
LeafSeqs == UNION {[1..n -> LeafKinds] : n \in 0..MaxLeaves}

TreeInit ==
    /\ \E kinds \in LeafSeqs :
          heap = [i \in 1..Len(kinds) |->
                     Token__init__(kinds[i].ttype, kinds[i].value)]
    /\ call = NoCall
    /\ exc = ""
    /\ LexIdle
    /\ RunIdle
    /\ GroupIdle
    /\ SysIdle

TreeNext ==
    \/ Construct
    \/ GroupTokensCall
    \/ InsertBeforeCall
    \/ InsertAfterCall

SpecTree == TreeInit /\ [][TreeNext]_vars

(***************************************************************************)
(* SpecGroup: the tokens of a text are made into a TokenList, a range of   *)
(* them is or is not grouped by group_tokens, and grouping.group runs on   *)
(* the list.                                                               *)
(***************************************************************************)
GroupInit ==
    /\ text \in {t \in GroupTexts : ~LexRaises(t, 0)}
    /\ pos = 0
    /\ out = <<>>
    /\ lpc = "scan"
    /\ heap = [i \in 1..Len(LexFrom(text, 0)) |->
                  Token__init__(LexFrom(text, 0)[i].ttype,
                                LexFrom(text, 0)[i].value)]
    /\ call = NoCall
    /\ exc = ""
    /\ RunIdle
    /\ GroupIdle
    /\ SysIdle

GroupNext ==
    \/ Construct
    \/ GroupRange
    \/ GroupCall
    \/ GroupMatchingPass
    \/ GroupMiddlePass
    \/ GroupOrderPass

SpecGroup == GroupInit /\ [][GroupNext]_vars

(***************************************************************************)
(* Properties of the lexer and of FilterStack.run.                         *)
(***************************************************************************)
\* the texts of a sequence of (ttype, value) pairs, concatenated in order
RECURSIVE TokensText(_)
TokensText(toks) ==
    IF toks = <<>> THEN <<>>
    ELSE Head(toks).value \o TokensText(Tail(toks))

\* the texts of the leaves of a list of statements, concatenated in order
RECURSIVE StatementsText(_)
StatementsText(stmts) ==
    IF stmts = <<>> THEN <<>>
    ELSE TokensText(Head(stmts)) \o StatementsText(Tail(stmts))

BlockOpeners == {W_BEGIN, W_CASE, W_IF, W_FOR, W_FOREACH}

\* the statements the specification describes for a token sequence: a level
\* that starts at 0, goes up at a block opener and down at END (the IF of
\* END IF opens nothing), and a ';' read at level 0 closing the statement
RECURSIVE ClaimedSplit(_, _, _, _)
ClaimedSplit(toks, level, afterEnd, cur) ==
    IF toks = <<>>
    THEN (IF cur = <<>> THEN <<>> ELSE <<cur>>)
    ELSE LET t == Head(toks)
             kw == TypeIn(t.ttype, T_Keyword)
             w == Upper(t.value)
             lvl == IF kw /\ w = W_END THEN Max(level - 1, 0)
                    ELSE IF kw /\ w \in BlockOpeners /\ ~afterEnd
                         THEN level + 1
                         ELSE level
             ae == IF TypeIn(t.ttype, T_Whitespace) THEN afterEnd
                   ELSE kw /\ w = W_END
         IN  IF t.ttype = T_Punctuation /\ t.value = <<";">> /\ lvl = 0
             THEN <<Append(cur, t)>>
                  \o ClaimedSplit(Tail(toks), 0, FALSE, <<>>)
             ELSE ClaimedSplit(Tail(toks), lvl, ae, Append(cur, t))

\* C1: FilterStack.run(S), with grouping or without, returns a list of
\* statements, and the texts of their leaves concatenated in order are S
C1_RunRoundTrip ==
    /\ rpc # "raised"
    /\ rpc = "returned" => StatementsText(ret) = sql

\* C2: the stream StatementSplitter.process hands on is the list of
\* statements cut at every ';' read at nesting level 0 and at no other ';'
C2_SplitAtLevelZero ==
    rpc \in {"split", "returned", "raised"} =>
        /\ stream.kind = "list"
        /\ stream.items = ClaimedSplit(LexFrom(sql, 0), 0, FALSE, <<>>)

\* C3: iterating Lexer.get_tokens never raises, and every Error token is one
\* character long
C3_LexerTotal ==
    /\ lpc # "raised"
    /\ \A i \in 1..Len(out) :
          out[i].ttype = T_Error => Len(out[i].value) = 1

\* C4: every yielded token text is non-empty, the texts yielded so far are a
\* prefix of text, and when the scan has ended they are the whole of text
C4_TokensCoverText ==
    /\ \A i \in 1..Len(out) : out[i].value # <<>>
    /\ Len(TokensText(out)) <= Len(text)
    /\ TokensText(out) = Slice(text, 0, Len(TokensText(out)))
    /\ lpc \in {"done", "raised"} => TokensText(out) = text

(***************************************************************************)
(* Properties of grouping.group.  call.old is the heap when group was      *)
(* called and call.self the stream it was called on.                       *)
(***************************************************************************)
GroupEnded == gpc \in {"raised", "returned"}

\* the stream handed to group was flat: the tokens scanned from text
FlatStream == Groups(call.old) = {call.self}

\* the nodes of class cls that contain the object id
Enclosing(h, cls, id) ==
    {g \in Groups(h) : h[g].cls = cls /\ InSeq(id, flatten(h, g))}

\* C5: at every step of grouping.group(stream), and however it ends, the
\* leaves of stream are the same objects in the same order as when the call
\* was made, each with the ttype and the value it had
C5_LeavesKept ==
    gpc # "idle" =>
        /\ flatten(heap, call.self) = flatten(call.old, call.self)
        /\ \A id \in 1..Len(call.old) :
              ~is_group(call.old, id) =>
                  /\ heap[id].cls = "Token"
                  /\ heap[id].ttype = call.old[id].ttype
                  /\ heap[id].value = call.old[id].value

\* group has ended on a stream that holds whitespace and a nested node
C5_Witness ==
    /\ GroupEnded
    /\ Cardinality(Groups(call.old)) = 2
    /\ Len(flatten(heap, call.self)) >= 3
    /\ \E i \in 1..Len(heap[call.self].tokens) :
          is_whitespace(heap, heap[call.self].tokens[i])

\* C6: grouping.group(stream) never raises and returns the list it was
\* given, whatever the tokens are
C6_GroupNeverFails ==
    /\ gpc # "raised"
    /\ gpc = "returned" => call.ret = call.self

\* C7: after group, the tokens of '(a (b) c)' are one Parenthesis from '('
\* to ')' with exactly one Parenthesis, covering '(b)', among its children
C7_NestedParenthesis ==
    (text = Sql_Nested /\ FlatStream /\ GroupEnded) =>
        /\ Len(heap[call.self].tokens) = 1
        /\ LET outer == heap[heap[call.self].tokens[1]]
               inner == {i \in 1..Len(outer.tokens) :
                            heap[outer.tokens[i]].cls = "Parenthesis"}
           IN  /\ outer.cls = "Parenthesis"
               /\ Len(outer.tokens) >= 2
               /\ heap[outer.tokens[1]].value = <<"(">>
               /\ heap[outer.tokens[Len(outer.tokens)]].value = <<")">>
               /\ Cardinality(inner) = 1
               /\ \A i \in inner :
                     str(heap, outer.tokens[i]) = <<"(", "b", ")">>

\* C8: after group, the tokens of 'a < b < c' are inside exactly one
\* Comparison holding every leaf, and every '<' token between two tokens
\* that are not whitespace is inside a Comparison
C8_ComparisonChain ==
    (FlatStream /\ GroupEnded) =>
        /\ text = Sql_Chain =>
              /\ Cardinality({g \in Groups(heap) :
                                 heap[g].cls = "Comparison"}) = 1
              /\ \A g \in Groups(heap) :
                    heap[g].cls = "Comparison" =>
                        flatten(heap, g) = flatten(call.old, call.self)
        /\ LET toks == call.old[call.self].tokens
           IN  \A i \in 2..(Len(toks) - 1) :
                  (/\ heap[toks[i]].value = <<"<">>
                   /\ ~is_whitespace(heap, toks[i - 1])
                   /\ ~is_whitespace(heap, toks[i + 1]))
                  => Enclosing(heap, "Comparison", toks[i]) # {}

(***************************************************************************)
(* Properties of the TokenList API.  call is the last call made, call.old  *)
(* the heap it was made on.                                                *)
(***************************************************************************)
\* the last call was made with ints that are indices of self
ValidCall ==
    \/ call.op \in {"", "TokenList"}
    \/ /\ call.op = "group_tokens"
       /\ InRange(call.old, call.self, call.start, call.end)
    \/ /\ call.op \in {"insert_before", "insert_after"}
       /\ InRange(call.old, call.self, call.where, call.where)

\* C9: after construction, group_tokens, insert_before and insert_after
\* calls with valid indices, every element of a node's tokens list has that
\* node as its parent (so the node group_tokens returns has the list it was
\* made in as its parent), and an object in a tokens list has a parent
C9_ParentLinks ==
    ValidCall =>
        \A n \in 1..Len(heap) :
           \A i \in 1..Len(heap[n].tokens) :
              /\ heap[heap[n].tokens[i]].parent = n
              /\ heap[heap[n].tokens[i]].parent # None

\* C10: group_tokens(K, start, end) with 0 <= start <= end < len(tokens)
\* returns a new node G of class K; n.tokens is old[0:start] + [G] +
\* old[stop:] and G.tokens is old[start:stop], each reparented to G, where
\* stop is end + 1 with include_end and end without; the children outside
\* the range keep their place in order and their parent
C10_GroupTokensFrame ==
    (/\ call.op = "group_tokens"
     /\ InRange(call.old, call.self, call.start, call.end)
     /\ ~call.extend) =>
        LET old == call.old[call.self].tokens
            start == call.start.v
            stop == IF call.include_end THEN call.end.v + 1 ELSE call.end.v
            G == call.ret
        IN  /\ exc = ""
            /\ G = Len(call.old) + 1
            /\ Len(heap) = G
            /\ heap[G].cls = call.grp_cls
            /\ heap[call.self].tokens =
                  SubSeq(old, 1, start) \o <<G>>
                  \o SubSeq(old, stop + 1, Len(old))
            /\ heap[G].tokens = SubSeq(old, start + 1, stop)
            /\ \A i \in (start + 1)..stop : heap[old[i]].parent = G
            /\ \A i \in (1..start) \cup ((stop + 1)..Len(old)) :
                  heap[old[i]].parent = call.old[old[i]].parent

\* the middle one of three children has been grouped with include_end, and
\* the last two of three with the end left out
C10_Witness ==
    /\ call.op = "group_tokens"
    /\ exc = ""
    /\ ~call.extend
    /\ call.start = IntArg(1)
    /\ call.end \in {IntArg(1), IntArg(2)}
    /\ call.include_end = (call.end = IntArg(1))
    /\ Len(call.old[call.self].tokens) = 3
    /\ Len(heap[call.self].tokens) = 3
    /\ Len(heap[call.ret].tokens) = 1

\* whether an index argument denotes an existing child of self: an int in
\* 0..len(tokens) - 1, or a token that is in self.tokens
Denotes(h, self, arg) ==
    IF arg.int
    THEN 0 <= arg.v /\ arg.v < Len(h[self].tokens)
    ELSE InSeq(arg.v, h[self].tokens)

\* C11: group_tokens called with a start or an end that denotes no child of
\* the node raises, leaves the node's tokens as they were and makes no group
C11_BadIndexRaises ==
    (/\ call.op = "group_tokens"
     /\ \/ ~Denotes(call.old, call.self, call.start)
        \/ ~Denotes(call.old, call.self, call.end)) =>
        /\ exc # ""
        /\ heap[call.self].tokens = call.old[call.self].tokens
        /\ Len(heap) = Len(call.old)

(***************************************************************************)
(* TokenList._token_matching, token_first, token_prev, token_next with     *)
(* their flags.                                                            *)
(***************************************************************************)
\* funcs, the list of lambdas the flags put together
Funcs(skip_ws, skip_cm) ==
    (IF skip_ws THEN {"not_whitespace"} ELSE {})
    \cup (IF skip_cm THEN {"not_Comment"} ELSE {})

\* func(token) for one of the two lambdas
FuncHolds(h, f, t) ==
    IF f = "not_whitespace" THEN ~is_whitespace(h, t)
    ELSE h[t].cls # "Comment"

\* for token in tokens: for func in funcs: if func(token): return token
RECURSIVE FirstAccepted(_, _, _)
FirstAccepted(h, toks, funcs) ==
    IF toks = <<>> THEN None
    ELSE IF \E f \in funcs : FuncHolds(h, f, Head(toks)) THEN Head(toks)
    ELSE FirstAccepted(h, Tail(toks), funcs)

\* reversed(tokens)
Reversed(s) == [i \in 1..Len(s) |-> s[Len(s) + 1 - i]]

\* TokenList._token_matching(funcs, start, end, reverse); end is optional
TokenList_token_matching(h, self, funcs, start, end, reverse) ==
    LET tokens == PySlice(h[self].tokens, Int_(start), end)
    IN  FirstAccepted(h, IF reverse THEN Reversed(tokens) ELSE tokens, funcs)

token_first(h, self, skip_ws, skip_cm) ==
    TokenList_token_matching(h, self, Funcs(skip_ws, skip_cm), 0, NoneInt,
                             FALSE)

token_prev(h, self, idx, skip_ws, skip_cm) ==
    TokenList_token_matching(h, self, Funcs(skip_ws, skip_cm), 0, Int_(idx),
                             TRUE)

\* token_next(idx, skip_ws, skip_cm)
token_next_flags(h, self, idx, skip_ws, skip_cm) ==
    TokenList_token_matching(h, self, Funcs(skip_ws, skip_cm), idx + 1,
                             NoneInt, FALSE)

\* the longest text over QueryAlphabet whose tokens a queried tree is made of
MaxQueryLen == 3

(***************************************************************************)
(* Queries on a tree: a node is made over the tokens of a text, a range of *)
(* its children is or is not grouped, and one method is called on a node.  *)
(***************************************************************************)
NodeClasses == {"Statement", "Case", "Identifier", "Function"}

\* cls(tokens) for a subclass of TokenList, over the tokens made so far
ConstructNode ==
    /\ call.op = ""
    /\ \E cls \in NodeClasses :
          /\ heap' = TokenList__init__(heap, cls, [i \in 1..Len(heap) |-> i])
          /\ call' = [NoCall EXCEPT !.op = "TokenList", !.grp_cls = cls,
                                    !.ret = Len(heap) + 1, !.old = heap]
    /\ exc' = ""
    /\ UNCHANGED lexVars
    /\ UNCHANGED runVars
    /\ UNCHANGED sysVars
    /\ UNCHANGED groupVars

\* the tree is built and no method has been called on it yet
CanQuery ==
    /\ gpc = "idle"
    /\ call.op \in {"TokenList", "group_tokens"}
    /\ exc = ""

TokenFirstCall ==
    /\ CanQuery
    /\ \E self \in Groups(heap), skip_ws \in BOOLEAN, skip_cm \in BOOLEAN :
          call' = [NoCall EXCEPT !.op = "token_first", !.self = self,
                      !.skip_ws = skip_ws, !.skip_cm = skip_cm,
                      !.ret = token_first(heap, self, skip_ws, skip_cm),
                      !.old = heap]
    /\ UNCHANGED <<heap, exc>>
    /\ UNCHANGED lexVars
    /\ UNCHANGED runVars
    /\ UNCHANGED sysVars
    /\ UNCHANGED groupVars

TokenPrevCall ==
    /\ CanQuery
    /\ \E self \in Groups(heap), skip_ws \in BOOLEAN, skip_cm \in BOOLEAN :
       \E idx \in 0..Len(heap[self].tokens) :
          call' = [NoCall EXCEPT !.op = "token_prev", !.self = self,
                      !.idx = idx, !.skip_ws = skip_ws, !.skip_cm = skip_cm,
                      !.ret = token_prev(heap, self, idx, skip_ws, skip_cm),
                      !.old = heap]
    /\ UNCHANGED <<heap, exc>>
    /\ UNCHANGED lexVars
    /\ UNCHANGED runVars
    /\ UNCHANGED sysVars
    /\ UNCHANGED groupVars

TokenNextCall ==
    /\ CanQuery
    /\ \E self \in Groups(heap), skip_ws \in BOOLEAN, skip_cm \in BOOLEAN :
       \E idx \in 0..Len(heap[self].tokens) :
          call' = [NoCall EXCEPT !.op = "token_next", !.self = self,
                      !.idx = idx, !.skip_ws = skip_ws, !.skip_cm = skip_cm,
                      !.ret = token_next_flags(heap, self, idx, skip_ws,
                                               skip_cm),
                      !.old = heap]
    /\ UNCHANGED <<heap, exc>>
    /\ UNCHANGED lexVars
    /\ UNCHANGED runVars
    /\ UNCHANGED sysVars
    /\ UNCHANGED groupVars

\* the loop of get_token_at_offset over the tokens left, idx the offset at
\* which the first of them begins
RECURSIVE OffsetLoop(_, _, _, _)
OffsetLoop(h, toks, idx, offset) ==
    IF toks = <<>> THEN None
    ELSE LET end == idx + Len(h[Head(toks)].value)
         IN  IF idx <= offset /\ offset < end THEN Head(toks)
             ELSE OffsetLoop(h, Tail(toks), end, offset)

\* get_token_at_offset looping over self.tokens instead of self.flatten()
get_token_at_offset_children(h, self, offset) ==
    OffsetLoop(h, h[self].tokens, 0, offset)

\* TokenList.get_token_at_offset(offset)
get_token_at_offset(h, self, offset) ==
    OffsetLoop(h, flatten(h, self), 0, offset)

GetTokenAtOffsetCall ==
    /\ CanQuery
    /\ \E self \in Groups(heap) :
       \E offset \in (0 - 1)..(Len(str(heap, self)) + 1) :
          call' = [NoCall EXCEPT !.op = "get_token_at_offset",
                      !.self = self, !.offset = offset,
                      !.ret = get_token_at_offset(heap, self, offset),
                      !.old = heap]
    /\ UNCHANGED <<heap, exc>>
    /\ UNCHANGED lexVars
    /\ UNCHANGED runVars
    /\ UNCHANGED sysVars
    /\ UNCHANGED groupVars

W_UNKNOWN == <<"U", "N", "K", "N", "O", "W", "N">>

\* Statement.get_type()
get_type(h, self) ==
    LET first_token == token_first(h, self, TRUE, FALSE)
    IN  IF first_token = None THEN W_UNKNOWN
        ELSE IF h[first_token].ttype \in {T_Keyword_DML, T_Keyword_DDL}
             THEN normalized(h, first_token)
             ELSE W_UNKNOWN

GetTypeCall ==
    /\ CanQuery
    /\ \E self \in Groups(heap) :
          /\ heap[self].cls = "Statement"
          /\ call' = [NoCall EXCEPT !.op = "get_type", !.self = self,
                         !.ret = get_type(heap, self), !.old = heap]
    /\ UNCHANGED <<heap, exc>>
    /\ UNCHANGED lexVars
    /\ UNCHANGED runVars
    /\ UNCHANGED sysVars
    /\ UNCHANGED groupVars

\* condition and value in get_cases: None, or a list of tokens
NoList == [some |-> FALSE, items |-> <<>>]

SomeList(s) == [some |-> TRUE, items |-> s]

\* the loop of Case.get_cases over the tokens left, and the statements after
\* it: the results and the exception raised.  token.tokens[-1] of a group
\* without children raises IndexError
RECURSIVE CasesLoop(_, _, _, _, _)
CasesLoop(h, toks, condition, value, results) ==
    IF toks = <<>>
    THEN [results |-> IF value.some
                      THEN Append(results, [condition |-> condition,
                                            value |-> value])
                      ELSE results,
          exc |-> ""]
    ELSE LET token == Head(toks)
             rest == Tail(toks)
             more == SomeList(Append(value.items, token))
         IN  IF match(h, token, OneType(T_Keyword), {W_WHEN}, FALSE)
             THEN CasesLoop(h, rest, SomeList(<<>>), value, results)
             ELSE IF match(h, token, OneType(T_Keyword), {W_THEN}, FALSE)
             THEN CasesLoop(h, rest, condition, SomeList(<<>>), results)
             ELSE IF match(h, token, OneType(T_Keyword), {W_ELSE}, FALSE)
             THEN CasesLoop(h, rest, NoList, SomeList(<<>>), results)
             ELSE IF condition.some /\ ~value.some
             THEN CasesLoop(h, rest,
                            SomeList(Append(condition.items, token)),
                            value, results)
             ELSE IF ~value.some
             THEN CasesLoop(h, rest, condition, value, results)
             ELSE IF ~is_group(h, token)
             THEN CasesLoop(h, rest, condition, more, results)
             ELSE IF h[token].tokens = <<>>
             THEN [results |-> results, exc |-> "IndexError"]
             ELSE IF match(h, PyItem(h[token].tokens, 0 - 1),
                           OneType(T_Keyword), {W_END}, FALSE)
             THEN CasesLoop(h, rest, NoList, NoList,
                            Append(results, [condition |-> condition,
                                             value |-> more]))
             ELSE CasesLoop(h, rest, condition, more, results)

\* Case.get_cases()
get_cases(h, self) == CasesLoop(h, h[self].tokens, NoList, NoList, <<>>)

GetCasesCall ==
    /\ CanQuery
    /\ \E self \in Groups(heap) :
          /\ heap[self].cls = "Case"
          /\ call' = [NoCall EXCEPT !.op = "get_cases", !.self = self,
                         !.ret = get_cases(heap, self).results,
                         !.old = heap]
          /\ exc' = get_cases(heap, self).exc
    /\ UNCHANGED heap
    /\ UNCHANGED lexVars
    /\ UNCHANGED runVars
    /\ UNCHANGED sysVars
    /\ UNCHANGED groupVars

\* the frames the interpreter allows a call chain (sys.getrecursionlimit(),
\* scaled down)
RecursionLimit == 4

\* what a name method gives: None, a string, or an exception
NameNone == [exc |-> "", none |-> TRUE, value |-> <<>>]

NameValue(v) == [exc |-> "", none |-> FALSE, value |-> v]

NameRaised(e) == [exc |-> e, none |-> TRUE, value |-> <<>>]

\* the classes that list NameAliasMixin before TokenList among their bases
HasNameAliasMixin(cls) == cls \in {"Identifier", "Function"}

\* get_alias: TokenList.get_alias falls off its body and
\* NameAliasMixin.get_alias returns None
get_alias(h, self) == NameNone

\* get_name is TokenList.get_name for every class; get_real_name is
\* NameAliasMixin.get_real_name for the classes that have the mixin and
\* TokenList.get_real_name for the others.  depth is the number of frames
\* of the chain, the one entered included
RECURSIVE get_name(_, _, _)
RECURSIVE get_real_name(_, _, _)
get_name(h, self, depth) ==
    IF depth > RecursionLimit THEN NameRaised("RecursionError")
    ELSE LET alias == get_alias(h, self)
         IN  IF ~alias.none /\ alias.value # <<>> THEN alias
             ELSE get_real_name(h, self, depth + 1)

get_real_name(h, self, depth) ==
    IF depth > RecursionLimit THEN NameRaised("RecursionError")
    ELSE IF HasNameAliasMixin(h[self].cls) THEN get_name(h, self, depth + 1)
    ELSE LET token == token_next_flags(h, self, 0, TRUE, FALSE)
         IN  IF token = None THEN NameNone ELSE NameValue(h[token].value)

\* node.get_name() or node.get_real_name()
GetNameCall ==
    /\ CanQuery
    /\ \E self \in Groups(heap), op \in {"get_name", "get_real_name"} :
          LET r == IF op = "get_name" THEN get_name(heap, self, 1)
                   ELSE get_real_name(heap, self, 1)
          IN  /\ call' = [NoCall EXCEPT !.op = op, !.self = self, !.ret = r,
                                        !.old = heap]
              /\ exc' = r.exc
    /\ UNCHANGED heap
    /\ UNCHANGED lexVars
    /\ UNCHANGED runVars
    /\ UNCHANGED sysVars
    /\ UNCHANGED groupVars

\* grouping.group_order(tlist), called on a node of the tree
GroupOrderCall ==
    /\ CanQuery
    /\ \E self \in Groups(heap) :
          LET o == group_order(heap, self)
          IN  /\ heap' = o.heap
              /\ exc' = o.exc
              /\ call' = [NoCall EXCEPT !.op = "group_order", !.self = self,
                                        !.ret = o.ret, !.old = heap]
    /\ UNCHANGED lexVars
    /\ UNCHANGED runVars
    /\ UNCHANGED sysVars
    /\ UNCHANGED groupVars

(***************************************************************************)
(* SpecQuery: the tokens of a text are made into a node, a range of them   *)
(* is or is not grouped, and one query is made.                            *)
(***************************************************************************)
QueryAlphabet == {" ", "a", "1"}

Sql_Case ==
    W_CASE \o <<" ">> \o W_WHEN \o <<" ", "a", " ">> \o W_THEN
    \o <<" ", "1", " ">> \o W_ELSE \o <<" ", "0", " ">> \o W_END

Sql_Commented == <<"-", "-", "c", "\n">> \o W_SELECT \o <<" ", "1">>

Sql_Lower == <<"s", "e", "l", "e", "c", "t", " ", "1">>

Sql_Order == <<"a", " ">> \o W_ASC

QueryTexts ==
    UNION {[1..n -> QueryAlphabet] : n \in 0..MaxQueryLen}
    \cup {Sql_Case, Sql_Commented, Sql_Lower, Sql_Order, Sql_NoTerminator,
          <<" ">> \o W_CREATE, <<"1">> \o W_DESC}

QueryInit ==
    /\ text \in QueryTexts
    /\ pos = 0
    /\ out = <<>>
    /\ lpc = "scan"
    /\ heap = [i \in 1..Len(LexFrom(text, 0)) |->
                  Token__init__(LexFrom(text, 0)[i].ttype,
                                LexFrom(text, 0)[i].value)]
    /\ call = NoCall
    /\ exc = ""
    /\ RunIdle
    /\ GroupIdle
    /\ SysIdle

\* a range of the children is grouped, in the trees of the short texts
NestRange ==
    /\ Len(text) <= MaxQueryLen
    /\ GroupRange

QueryNext ==
    \/ ConstructNode
    \/ NestRange
    \/ TokenFirstCall
    \/ TokenPrevCall
    \/ TokenNextCall
    \/ GetTokenAtOffsetCall
    \/ GetTypeCall
    \/ GetCasesCall
    \/ GetNameCall
    \/ GroupOrderCall

SpecQuery == QueryInit /\ [][QueryNext]_vars

(***************************************************************************)
(* Properties of the queries.  call is the query made, call.old the heap   *)
(* it was made on.                                                         *)
(***************************************************************************)
\* the 1-based positions in lo..hi of the children of self that a lookup
\* with the flags skip_ws and skip_cm is after
WantedAt(h, self, lo, hi, skip_ws, skip_cm) ==
    {i \in lo..hi :
        /\ i >= 1
        /\ i <= Len(h[self].tokens)
        /\ skip_ws => ~is_whitespace(h, h[self].tokens[i])
        /\ skip_cm => h[h[self].tokens[i]].cls # "Comment"}

\* the child at the least (greatest) of a set of positions, None for none
ChildAtLeast(h, self, S) ==
    IF S = {} THEN None
    ELSE h[self].tokens[CHOOSE i \in S : \A j \in S : i <= j]

ChildAtGreatest(h, self, S) ==
    IF S = {} THEN None
    ELSE h[self].tokens[CHOOSE i \in S : \A j \in S : i >= j]

\* C12: token_first returns the first child that is not whitespace when
\* skip_ws is set and not a Comment when skip_cm is set, token_next(idx) the
\* nearest such child after index idx and token_prev(idx) the nearest one
\* before it; each returns None only when there is no such child
C12_Lookups ==
    LET n == Len(call.old[call.self].tokens)
    IN  /\ call.op = "token_first" =>
              call.ret = ChildAtLeast(call.old, call.self,
                             WantedAt(call.old, call.self, 1, n,
                                      call.skip_ws, call.skip_cm))
        /\ call.op = "token_next" =>
              call.ret = ChildAtLeast(call.old, call.self,
                             WantedAt(call.old, call.self, call.idx + 2, n,
                                      call.skip_ws, call.skip_cm))
        /\ call.op = "token_prev" =>
              call.ret = ChildAtGreatest(call.old, call.self,
                             WantedAt(call.old, call.self, 1, call.idx,
                                      call.skip_ws, call.skip_cm))

\* the positions in a sequence of leaves of those whose text covers offset
Covering(h, leaves, offset) ==
    {k \in 1..Len(leaves) :
        /\ Len(join_values(h, SubSeq(leaves, 1, k - 1))) <= offset
        /\ offset < Len(join_values(h, SubSeq(leaves, 1, k)))}

\* C13: get_token_at_offset(offset) returns the one leaf of flatten() whose
\* text covers offset when 0 <= offset < len(str(n)), and None for any other
\* offset; on the root it is the leaf found in the flat list of the tokens,
\* however they are nested
C13_TokenAtOffset ==
    call.op = "get_token_at_offset" =>
        LET h == call.old
            leaves == flatten(h, call.self)
            hit == Covering(h, leaves, call.offset)
            flat == [i \in 1..(Root(h) - 1) |-> i]
        IN  /\ IF 0 <= call.offset /\ call.offset < Len(str(h, call.self))
               THEN /\ Cardinality(hit) = 1
                    /\ \A k \in hit : call.ret = leaves[k]
               ELSE call.ret = None
            /\ call.self = Root(h) =>
                  \A k \in Covering(h, flat, call.offset) : call.ret = flat[k]

\* an offset inside a leaf of several characters that is in a nested group
C13_Witness ==
    /\ call.op = "get_token_at_offset"
    /\ call.self = Root(call.old)
    /\ call.ret # None
    /\ call.offset > 0
    /\ Len(call.old[call.ret].value) >= 2
    /\ call.old[call.ret].parent # call.self
    /\ get_token_at_offset(call.old, call.self, call.offset - 1) = call.ret

\* a comment: a Comment node or a leaf the lexer made of a comment
IsComment(h, t) ==
    h[t].cls = "Comment" \/ TypeIn(h[t].ttype, <<"Comment">>)

\* C14: get_type returns the upper-cased text of the first child that is
\* neither whitespace nor a comment when that child is a DML or DDL keyword,
\* and 'UNKNOWN' otherwise
C14_GetType ==
    call.op = "get_type" =>
        LET h == call.old
            toks == h[call.self].tokens
            S == {i \in 1..Len(toks) :
                     ~is_whitespace(h, toks[i]) /\ ~IsComment(h, toks[i])}
            first == ChildAtLeast(h, call.self, S)
        IN  call.ret =
               IF first # None
                  /\ h[first].ttype \in {T_Keyword_DML, T_Keyword_DDL}
               THEN Upper(h[first].value)
               ELSE W_UNKNOWN

\* whether a list of tokens holds one whose text is v
HoldsText(h, toks, v) == \E i \in 1..Len(toks) : h[toks[i]].value = v

\* C15: get_cases on the Case node made of the tokens of
\* 'CASE WHEN a THEN 1 ELSE 0 END' returns two pairs: the WHEN branch with a
\* non-empty condition and a value holding 1, then the ELSE branch with the
\* condition None and a value holding 0
C15_GetCases ==
    (call.op = "get_cases" /\ text = Sql_Case) =>
        /\ exc = ""
        /\ Len(call.ret) = 2
        /\ call.ret[1].condition.some
        /\ call.ret[1].condition.items # <<>>
        /\ HoldsText(call.old, call.ret[1].value.items, <<"1">>)
        /\ ~call.ret[2].condition.some
        /\ HoldsText(call.old, call.ret[2].value.items, <<"0">>)


----------------------------------------------------------------------------
\* Lexer.get_default_instance called by several threads (lexer.py 11-50).
\* The class attributes are lexer.lock (0 when free, else the holding thread)
\* and lexer.default_instance (None or the index of an instance in
\* lexer.instances). An instance records whether _keywords is set, the
\* tables appended to it and how often default_initialization began on it.

NumThreads == 3

Threads == 1 .. NumThreads

\* the arguments of the six add_keywords calls, in order (lexer.py 28-33)
DefaultTables ==
    <<"KEYWORDS", "KEYWORDS_COMMON", "KEYWORDS_ORACLE", "KEYWORDS_PLPGSQL",
      "KEYWORDS_HQL", "KEYWORDS_MSACCESS">>

\* cls(): Lexer defines no __init__, so the new object has no _keywords yet
NewLexer == [set |-> FALSE, keywords |-> <<>>, inits |-> 0]

NoThread == [pc |-> "idle", self |-> None, k |-> 0, ret |-> None, seen |-> <<>>]

\* the guard of Lock.__enter__, always true
LockFree_always(l) == TRUE

\* the guard of Lock.__enter__ in "with cls._lock": the lock is not held
LockFree(l) == l.lock = 0

\* a thread calls Lexer.get_default_instance (lexer.py 15)
ThreadCall(t) ==
    /\ proc[t].pc = "idle"
    /\ proc' = [proc EXCEPT ![t].pc = "enter"]
    /\ UNCHANGED <<lexer, cli>>
    /\ UNCHANGED <<lexVars, runVars, treeVars, groupVars, exc>>

\* with cls._lock: blocks until the lock is free, then holds it (lexer.py 18)
ThreadAcquire(t) ==
    /\ proc[t].pc = "enter"
    /\ LockFree(lexer)
    /\ lexer' = [lexer EXCEPT !.lock = t]
    /\ proc' = [proc EXCEPT ![t].pc = "test"]
    /\ UNCHANGED cli
    /\ UNCHANGED <<lexVars, runVars, treeVars, groupVars, exc>>

\* if cls._default_instance is None (lexer.py 19)
ThreadTest(t) ==
    /\ proc[t].pc = "test"
    /\ proc' = [proc EXCEPT ![t].pc =
                   IF lexer.default_instance = None THEN "create"
                   ELSE "return"]
    /\ UNCHANGED <<lexer, cli>>
    /\ UNCHANGED <<lexVars, runVars, treeVars, groupVars, exc>>

\* cls._default_instance = cls() (lexer.py 20)
ThreadCreate(t) ==
    /\ proc[t].pc = "create"
    /\ lexer' = [lexer EXCEPT
                   !.instances = Append(@, NewLexer),
                   !.default_instance = Len(lexer.instances) + 1]
    /\ proc' = [proc EXCEPT ![t].pc = "init"]
    /\ UNCHANGED cli
    /\ UNCHANGED <<lexVars, runVars, treeVars, groupVars, exc>>

\* cls._default_instance.default_initialization() up to the end of
\* self.clear(): the receiver is read from the class attribute
\* (lexer.py 21, 24-27, 35-41)
ThreadClear(t) ==
    /\ proc[t].pc = "init"
    /\ LET self == lexer.default_instance IN
       /\ lexer' = [lexer EXCEPT
                      !.instances[self] =
                          [set |-> TRUE, keywords |-> <<>>,
                           inits |-> @.inits + 1]]
       /\ proc' = [proc EXCEPT ![t].pc = "add", ![t].self = self, ![t].k = 0]
    /\ UNCHANGED cli
    /\ UNCHANGED <<lexVars, runVars, treeVars, groupVars, exc>>

\* the next self.add_keywords(...) of default_initialization
\* (lexer.py 28-33, 47-50)
ThreadAddKeywords(t) ==
    /\ proc[t].pc = "add"
    /\ LET self == proc[t].self
           k == proc[t].k + 1 IN
       /\ lexer' = [lexer EXCEPT
                      !.instances[self].keywords =
                          Append(@, DefaultTables[k])]
       /\ proc' = [proc EXCEPT
                     ![t].k = k,
                     ![t].pc = IF k = Len(DefaultTables) THEN "return"
                               ELSE "add"]
    /\ UNCHANGED cli
    /\ UNCHANGED <<lexVars, runVars, treeVars, groupVars, exc>>

\* return cls._default_instance, leaving the with block (lexer.py 22)
ThreadReturn(t) ==
    /\ proc[t].pc = "return"
    /\ proc' = [proc EXCEPT
                  ![t].pc = "done",
                  ![t].ret = lexer.default_instance,
                  ![t].seen = lexer.instances[lexer.default_instance].keywords]
    /\ lexer' = [lexer EXCEPT !.lock = 0]
    /\ UNCHANGED cli
    /\ UNCHANGED <<lexVars, runVars, treeVars, groupVars, exc>>

\* the interpreter starts with the class defined and no call made
ThreadsInit ==
    /\ LexIdle
    /\ RunIdle
    /\ TreeIdle
    /\ GroupIdle
    /\ exc = ""
    /\ lexer = [lock |-> 0, default_instance |-> None, instances |-> <<>>]
    /\ proc = [t \in Threads |-> NoThread]
    /\ cli = [pc |-> "idle"]

ThreadsNext ==
    \E t \in Threads :
        \/ ThreadCall(t)
        \/ ThreadAcquire(t)
        \/ ThreadTest(t)
        \/ ThreadCreate(t)
        \/ ThreadClear(t)
        \/ ThreadAddKeywords(t)
        \/ ThreadReturn(t)

SpecThreads == ThreadsInit /\ [][ThreadsNext]_vars

\* C16: under every interleaving of the threads' first calls of
\* Lexer.get_default_instance at most one Lexer is ever made and
\* default_initialization begins at most once on it; a thread that has
\* returned was given that one instance, on which default_initialization ran
\* once, with all six keyword tables already appended in order.
C16_OneInstance ==
    /\ Len(lexer.instances) <= 1
    /\ \A i \in DOMAIN lexer.instances : lexer.instances[i].inits <= 1
    /\ \A t \in DOMAIN proc :
           proc[t].pc = "done" =>
               /\ proc[t].ret = 1
               /\ proc[t].ret = lexer.default_instance
               /\ Len(lexer.instances) = 1
               /\ lexer.instances[1].inits = 1
               /\ proc[t].seen = DefaultTables

\* every one of the threads has called get_default_instance and returned
C16_Witness ==
    /\ proc # <<>>
    /\ \A t \in DOMAIN proc : proc[t].pc = "done"


\* C17: get_name() and get_real_name() of an Identifier or Function node
\* return a value, a string or None, and raise nothing.
C17_NamesTerminate ==
    (/\ call.op \in {"get_name", "get_real_name"}
     /\ HasNameAliasMixin(heap[call.self].cls)) =>
        exc = ""


\* whether g is tlist or is below it with no Identifier on the way up,
\* following at most n parent links
RECURSIVE ReachedFrom(_, _, _, _)
ReachedFrom(h, g, tlist, n) ==
    \/ g = tlist
    \/ /\ n > 0
       /\ h[g].parent # None
       /\ h[g].cls # "Identifier"
       /\ ReachedFrom(h, h[g].parent, tlist, n - 1)

\* the groups of h at or below tlist that are not inside an Identifier
OrderLevels(h, tlist) ==
    {g \in Groups(h) : ReachedFrom(h, g, tlist, Len(h))}

\* the pairs <<i, j>> of positions in g of a Name, String.Symbol or Number
\* leaf and an ASC or DESC keyword after it with only whitespace between
OrderPairs(h, g) ==
    {p \in (1..Len(h[g].tokens)) \X (1..Len(h[g].tokens)) :
        /\ p[1] < p[2]
        /\ ~is_group(h, h[g].tokens[p[1]])
        /\ h[h[g].tokens[p[1]]].ttype \in {T_Name, T_String_Symbol, T_Number}
        /\ ~is_group(h, h[g].tokens[p[2]])
        /\ h[h[g].tokens[p[2]]].ttype = T_Keyword_Order
        /\ Upper(h[h[g].tokens[p[2]]].value) \in {W_ASC, W_DESC}
        /\ \A k \in (p[1] + 1)..(p[2] - 1) :
               is_whitespace(h, h[g].tokens[k])}

\* C20: after group_order(tlist) has returned, at every level not inside an
\* Identifier each Name, String.Symbol or Number leaf that was followed,
\* whitespace aside, by an ASC or DESC keyword is a child of one Identifier
\* whose children are that leaf, the whitespace and the keyword.
C20_OrderGrouped ==
    (call.op = "group_order" /\ exc = "") =>
        \A g \in OrderLevels(call.old, call.self) :
            \A p \in OrderPairs(call.old, g) :
                LET first == call.old[g].tokens[p[1]]
                    grp == heap[first].parent
                IN  /\ grp # None
                    /\ heap[grp].cls = "Identifier"
                    /\ heap[grp].tokens = SubSeq(call.old[g].tokens, p[1], p[2])
                    /\ heap[grp].parent = g


----------------------------------------------------------------------------
\* SpecString: Lexer.get_tokens over texts of quotes, backslashes and a
\* letter, the characters the string rule tells apart.

MaxStrLen == 5

StringAlphabet == {"'", "\"", "\\", "a"}

StringTexts == UNION {[1..n -> StringAlphabet] : n \in 0..MaxStrLen}

StringInit ==
    /\ text \in StringTexts
    /\ pos = 0
    /\ out = <<>>
    /\ lpc = "scan"
    /\ exc = ""
    /\ RunIdle
    /\ TreeIdle
    /\ GroupIdle
    /\ SysIdle

\* the rules that a character of StringAlphabet can select
StringNext ==
    \/ LexString
    \/ LexName
    \/ LexError
    \/ LexExhausted

SpecString == StringInit /\ [][StringNext]_vars

\* the index at which the i-th token yielded starts
RECURSIVE StartOf(_, _)
StartOf(toks, i) ==
    IF i <= 1 THEN 0 ELSE StartOf(toks, i - 1) + Len(toks[i - 1].value)

\* the number of consecutive backslashes that end just before index e
RECURSIVE BackslashesBefore(_, _)
BackslashesBefore(t, e) ==
    IF e >= 1 /\ At(t, e - 1) = "\\" THEN 1 + BackslashesBefore(t, e - 1)
    ELSE 0

\* the indices after s of a quote of the kind at s that has an even number of
\* consecutive backslashes before it
Closers(t, s) ==
    {e \in (s + 1)..(Len(t) - 1) :
        /\ At(t, e) = At(t, s)
        /\ BackslashesBefore(t, e) % 2 = 0}

\* where the token opened at s is said to end (exclusive)
ClaimedStringEnd(t, s) ==
    IF Closers(t, s) = {} THEN Len(t)
    ELSE (CHOOSE e \in Closers(t, s) : \A f \in Closers(t, s) : e <= f) + 1

\* C19: a token that starts at a quote q is a String token that runs up to
\* and including the first later q with an even number of consecutive
\* backslashes before it, a quote of the other kind not ending it, or up to
\* the end of the text when there is no such q; the scan raises nothing.
C19_StringEnds ==
    /\ lpc # "raised"
    /\ exc = ""
    /\ \A i \in 1..Len(out) :
          LET s == StartOf(out, i) IN
          At(text, s) \in QuoteChars =>
              /\ out[i].ttype = T_String
              /\ out[i].value = Slice(text, s, ClaimedStringEnd(text, s))

\* a scan has ended that yielded a string holding a quote of the other kind
\* and closed after two backslashes, and one left open by an escaped quote
C19_Witness ==
    /\ lpc = "done"
    /\ \/ /\ text = <<"\"", "'", "\\", "\\", "\"">>
          /\ out = <<Tok(T_String, text)>>
       \/ /\ text = <<"a", "'", "\\", "'", "a">>
          /\ Len(out) = 2
          /\ out[2] = Tok(T_String, <<"'", "\\", "'", "a">>)


----------------------------------------------------------------------------
\* SpecCli: cli.main(args) after parse_args has returned (cli.py 42-77).
\* A file argument is given by whether reading it succeeds (readable) and
\* whether the write of its data to the outfile succeeds (writable).  cli.log
\* lists the reads and writes made, each with its success.

MaxFiles == 2

FileArgs == [readable : BOOLEAN, writable : BOOLEAN]

CliArgs ==
    [files : UNION {[1..n -> FileArgs] : n \in 0..MaxFiles},
     outfile : BOOLEAN,
     reindent : BOOLEAN]

Event(kind, file, ok) == [kind |-> kind, file |-> file, ok |-> ok]

\* an _error(msg) that writes the message and returns
_error_returns(c, msg) == [c EXCEPT !.stderr = Append(@, msg)]

\* _error(msg): sys.stderr.write(msg + '\n'); sys.exit(1)
_error(c, msg) ==
    [c EXCEPT !.stderr = Append(@, msg), !.status = 1, !.pc = "exited"]

\* sqlparse.format(data, reindent=True, indent_width=...): the formatted text
format(data) == [data EXCEPT !.formatted = TRUE]

\* main up to the loop: with no file argument print_help and sys.exit(1)
CliStart ==
    /\ cli.pc = "start"
    /\ cli' = IF cli.args.files = <<>>
              THEN [cli EXCEPT !.help = TRUE, !.status = 1, !.pc = "exited"]
              ELSE [cli EXCEPT !.pc = "read", !.i = 1]
    /\ UNCHANGED <<lexer, proc>>
    /\ UNCHANGED <<lexVars, runVars, treeVars, groupVars, exc>>

\* the next file_ of the for loop is opened and read; OSError goes to
\* _error and, should that return, to the continue after it.  When the files
\* are used up main returns 0
CliRead ==
    /\ cli.pc = "read"
    /\ cli.i <= Len(cli.args.files)
    /\ LET ok == cli.args.files[cli.i].readable
           c1 == [cli EXCEPT !.log = Append(@, Event("read", cli.i, ok))]
           c2 == _error(c1, "Failed to read")
       IN  cli' = IF ok
                  THEN [c1 EXCEPT !.pc = "format",
                                  !.data = [file |-> cli.i,
                                            formatted |-> FALSE]]
                  ELSE IF c2.pc = "exited" THEN c2
                  ELSE [c2 EXCEPT !.i = @ + 1]
    /\ UNCHANGED <<lexer, proc>>
    /\ UNCHANGED <<lexVars, runVars, treeVars, groupVars, exc>>

\* if args.reindent: data = sqlparse.format(data, ...)
CliFormat ==
    /\ cli.pc = "format"
    /\ cli' = [cli EXCEPT !.pc = "write",
                          !.data = IF cli.args.reindent THEN format(@) ELSE @]
    /\ UNCHANGED <<lexer, proc>>
    /\ UNCHANGED <<lexVars, runVars, treeVars, groupVars, exc>>

\* the data goes to the outfile, where OSError goes to _error, or to stdout;
\* then the loop takes the next file
CliWrite ==
    /\ cli.pc = "write"
    /\ LET ok == cli.args.files[cli.i].writable
           c1 == [cli EXCEPT !.log = Append(@, Event("write", cli.i, ok))]
           c2 == _error(c1, "Failed to write")
       IN  cli' = IF ~cli.args.outfile
                  THEN [cli EXCEPT !.stdout = Append(@, cli.data),
                                   !.pc = "read", !.i = @ + 1]
                  ELSE IF ok
                  THEN [c1 EXCEPT !.written = Append(@, cli.data),
                                  !.pc = "read", !.i = @ + 1]
                  ELSE IF c2.pc = "exited" THEN c2
                  ELSE [c2 EXCEPT !.pc = "read", !.i = @ + 1]
    /\ UNCHANGED <<lexer, proc>>
    /\ UNCHANGED <<lexVars, runVars, treeVars, groupVars, exc>>

\* the loop has ended: return 0
CliReturn ==
    /\ cli.pc = "read"
    /\ cli.i > Len(cli.args.files)
    /\ cli' = [cli EXCEPT !.pc = "returned", !.status = 0]
    /\ UNCHANGED <<lexer, proc>>
    /\ UNCHANGED <<lexVars, runVars, treeVars, groupVars, exc>>

CliInit ==
    /\ LexIdle
    /\ RunIdle
    /\ TreeIdle
    /\ GroupIdle
    /\ exc = ""
    /\ lexer = [lock |-> 0, default_instance |-> None, instances |-> <<>>]
    /\ proc = <<>>
    /\ \E args \in CliArgs :
          cli = [pc |-> "start", args |-> args, i |-> 0,
                 data |-> [file |-> 0, formatted |-> FALSE],
                 log |-> <<>>, stdout |-> <<>>, written |-> <<>>,
                 stderr |-> <<>>, help |-> FALSE, status |-> 0 - 1]

CliNext ==
    \/ CliStart
    \/ CliRead
    \/ CliFormat
    \/ CliWrite
    \/ CliReturn

SpecCli == CliInit /\ [][CliNext]_vars

\* whether a read or a write of the log failed
CliFailed(log) == \E k \in 1..Len(log) : ~log[k].ok

C21_FailedInsertChangesNothing ==
    (/\ call.op \in {"insert_before", "insert_after"}
     /\ ~call.where.int
     /\ ~InSeq(call.where.v, call.old[call.self].tokens)
     /\ exc # "") =>
        /\ heap[call.self].tokens = call.old[call.self].tokens
        /\ heap[call.token].parent = call.old[call.token].parent

=============================================================================
